---------------------------- MODULE Spec2Model ----------------------------
(***************************************************************************)
(* Model of the parameter optimizer of warp-mining-ai                      *)
(* (engines/optimization_engine.py, class OptimizationEngine).             *)
(*                                                                         *)
(* Numbers.  Python floats are modelled in fixed point: every quantity is  *)
(* an integer number of thousandths (65.0 is 65000, 0.85 is 850).          *)
(* Quotients round toward zero.  Values are finite; NaN inputs are not     *)
(* modelled, the NaN and infinity that a division by a zero baseline       *)
(* produces are (see improvement_pct).                                     *)
(*                                                                         *)
(* Dictionaries.  A Python dict is a sequence of entries in insertion      *)
(* order, [name, num, val]: num says whether the value is an int/float,    *)
(* val is the value in thousandths (0 for a value that is not a number).   *)
(*                                                                         *)
(* Random numbers.  numpy's global generator is the pair (stream, rng):    *)
(* stream is the cycle of standard normal samples that follows             *)
(* np.random.seed(42), rng the position in it.  np.random.seed(42) sets    *)
(* rng to 0, every np.random.normal call reads stream at rng and advances. *)
(***************************************************************************)
EXTENDS Integers, Sequences, FiniteSets, TLC

VARIABLES
    config,                 \* WarpConfig().OPTIMIZATION_ITERATIONS of the session
    optimization_history,   \* OptimizationEngine.optimization_history
    heap,                   \* the caller's parameter map object (contents)
    stream,                 \* the samples of numpy's global generator after seed(42)
    rng,                    \* position of numpy's global generator in stream
    held,                   \* what the caller's variable from getHistory refers to
    heldAt,                 \* ghost: the history when that reference was returned
    returned,               \* ghost: the results returned so far, copied by value
    calls,                  \* ghost: number of optimization calls made
    last,                   \* ghost: the last call, its arguments and its outcome
    threads,                \* the request threads inside optimize, each with its locals
    conversation_history    \* WarpMiningAI.conversation_history

vars == <<config, optimization_history, heap, stream, rng, held, heldAt, returned,
          calls, last, threads, conversation_history>>

-----------------------------------------------------------------------------
(* Fixed-point arithmetic *)

U == 10 * 100                       \* one unit, in thousandths

Abs(a) == IF a < 0 THEN -a ELSE a
Min(a, b) == IF b < a THEN b ELSE a     \* Python min(a, b)
Max(a, b) == IF b > a THEN b ELSE a     \* Python max(a, b)

\* a / b for b > 0, rounded toward zero
TDiv(a, b) == IF a >= 0 THEN a \div b ELSE -((-a) \div b)

\* product of two fixed-point numbers, rounded toward zero; the factor b is
\* split into its units and thousandths so that no intermediate product is large
Mul(a, b) ==
    LET x == Abs(a)
        y == Abs(b)
        p == x * (y \div U) + (x * (y % U)) \div U
    IN  IF (a < 0) = (b < 0) THEN p ELSE -p

Pow10(k) == IF k = 0 THEN 1 ELSE IF k = 1 THEN 10 ELSE IF k = 2 THEN 100 ELSE 10 * 100

\* floor(r * 10^k / d) for 0 <= r < d, digit by digit (no large products)
RECURSIVE Frac(_, _, _)
Frac(r, d, k) ==
    IF k = 0 THEN 0
    ELSE ((r * 10) \div d) * Pow10(k - 1) + Frac((r * 10) % d, d, k - 1)

\* floor(n * 10^k / d) for n >= 0, d > 0
LongDiv(n, d, k) == (n \div d) * Pow10(k) + Frac(n % d, d, k)

\* integer square root by bisection on lo..hi
RECURSIVE IsqrtIn(_, _, _)
IsqrtIn(n, lo, hi) ==
    IF lo >= hi THEN lo
    ELSE LET mid == (lo + hi + 1) \div 2
         IN  IF mid * mid <= n THEN IsqrtIn(n, mid, hi) ELSE IsqrtIn(n, lo, mid - 1)

Isqrt(n) == IsqrtIn(n, 0, 40000)

-----------------------------------------------------------------------------
(* Dictionaries *)

Entry(name, num, val) == [name |-> name, num |-> num, val |-> val]

Keys(m) == {m[i].name : i \in 1..Len(m)}

Has(m, k) == k \in Keys(m)

IndexOf(m, k) == CHOOSE i \in 1..Len(m) : m[i].name = k

\* parameters.get(k, default), for a numeric value
Get(m, k, default) == IF Has(m, k) THEN m[IndexOf(m, k)].val ELSE default

\* keys whose value is not an int or float
NonNumericKeys(m) == {m[i].name : i \in {j \in 1..Len(m) : ~m[j].num}}

-----------------------------------------------------------------------------
(* OptimizationEngine._initialize_algorithms: convergence_rate per algorithm *)

optimization_algorithms ==
    [genetic_algorithm      |-> [convergence_rate |-> 850, exploration_ability |-> 900],
     particle_swarm         |-> [convergence_rate |-> 920, exploration_ability |-> 800],
     simulated_annealing    |-> [convergence_rate |-> 880, exploration_ability |-> 850],
     differential_evolution |-> [convergence_rate |-> 900, exploration_ability |-> 870]]

\* the objective strings of the model: which of the words the code looks for
\* ('multi', 'pareto', 'cost', 'time', 'minimize') each contains, as written
Keywords(objective) ==
    CASE objective = "minimize_cost"          -> {"minimize", "cost"}
      [] objective = "minimize_time"          -> {"minimize", "time"}
      [] objective = "multi_objective"        -> {"multi"}
      [] objective = "multi_time"             -> {"multi", "time"}
      [] objective = "pareto_cost"            -> {"pareto", "cost"}
      [] objective = "minimize_cost_and_time" -> {"minimize", "cost", "time"}
      [] objective = "time"                   -> {"time"}
      [] objective = "cost_minimize"          -> {"cost", "minimize"}
      [] OTHER                                -> {}

\* word in objective (case-sensitive)
Contains(objective, word) == word \in Keywords(objective)

\* objective.lower()
Lower(objective) ==
    CASE objective = "Minimize_Cost" -> "minimize_cost"
      [] objective = "TIME"          -> "time"
      [] OTHER                       -> objective

select_algorithm_count_first(parameters, objective) ==
    IF Contains(Lower(objective), "multi") \/ Contains(Lower(objective), "pareto")
    THEN "genetic_algorithm"
    ELSE IF Len(parameters) > 6 THEN "differential_evolution"
    ELSE IF Contains(Lower(objective), "cost") THEN "simulated_annealing"
    ELSE "particle_swarm"
select_algorithm(parameters, objective) ==
    IF Contains(Lower(objective), "multi") \/ Contains(Lower(objective), "pareto")
    THEN "genetic_algorithm"
    ELSE IF Contains(Lower(objective), "cost") THEN "simulated_annealing"
    ELSE IF Contains(Lower(objective), "time") THEN "particle_swarm"
    ELSE IF Len(parameters) > 6 THEN "differential_evolution"
    ELSE "particle_swarm"

-----------------------------------------------------------------------------
(* OptimizationEngine._define_parameter_bounds *)

standard_bounds ==
    [ore_grade          |-> <<500, 8000>>,
     leaching_time      |-> <<2000, 48000>>,
     acid_concentration |-> <<100, 5000>>,
     temperature        |-> <<15000, 95000>>,
     voltage            |-> <<1000, 4000>>,
     current_density    |-> <<100000, 800000>>,
     pH                 |-> <<500, 14000>>,
     pressure           |-> <<500, 10000>>,
     flow_rate          |-> <<1000, 200000>>,
     particle_size      |-> <<100, 100000>>,
     reagent_dosage     |-> <<100, 10000>>,
     retention_time     |-> <<500, 24000>>]

\* the bounds of one entry of the parameter map
BoundsOf(e) ==
    IF e.name \in DOMAIN standard_bounds THEN standard_bounds[e.name]
    ELSE IF e.num THEN <<Max(100, TDiv(e.val * 5, 10)), e.val * 2>>
    ELSE <<100, 10000>>

\* bounds[param] for every param of the map, in the map's order
define_parameter_bounds(parameters) ==
    [i \in 1..Len(parameters) |-> BoundsOf(parameters[i])]

-----------------------------------------------------------------------------
(* The objective evaluator: OptimizationEngine._estimate_* *)

estimate_recovery(parameters) ==
    LET temp  == Get(parameters, "temperature", 65000)
        acid  == Get(parameters, "acid_concentration", 1500)
        time  == Get(parameters, "leaching_time", 8000)
        grade == Get(parameters, "ore_grade", 2500)
        temp_factor  == Min(1200, TDiv(temp - 25000, 60))
        acid_factor  == Min(1100, TDiv(acid, 2))
        \* np.sqrt of a negative number is nan, and min(1.15, nan) is 1.15
        time_factor  == IF time < 0 THEN 1150 ELSE Min(1150, Isqrt(time * 125))
        grade_factor == Min(1100, TDiv(grade, 3))
    IN  Min(980, Mul(Mul(Mul(Mul(750, temp_factor), acid_factor), time_factor), grade_factor))

estimate_purity(parameters) ==
    LET voltage == Get(parameters, "voltage", 2200)
        current == Get(parameters, "current_density", 300000)
        temp    == Get(parameters, "temperature", 60000)
        voltage_factor == Min(1100, TDiv(voltage * 10, 25))
        current_factor == Max(800, U - TDiv(Abs(current - 400000), 800))
        temp_factor    == Max(800, U - TDiv(Abs(temp - 60000), 60))
    IN  Min(999, Mul(Mul(Mul(900, voltage_factor), current_factor), temp_factor))

estimate_energy_efficiency(parameters) ==
    LET voltage     == Get(parameters, "voltage", 2200)
        temperature == Get(parameters, "temperature", 65000)
        time        == Get(parameters, "leaching_time", 8000)
        voltage_penalty == TDiv(voltage - 1800, 2)
        temp_penalty    == TDiv(Max(0, temperature - 25000), 100)
        time_penalty    == TDiv(Max(0, time - 6000), 20)
    IN  Max(300, U - voltage_penalty - temp_penalty - time_penalty)

estimate_reagent_cost(parameters) ==
    LET acid_conc      == Get(parameters, "acid_concentration", 1500)
        reagent_dosage == Get(parameters, "reagent_dosage", 2000)
    IN  50000 + acid_conc * 40 + reagent_dosage * 25

estimate_energy_cost(parameters) ==
    LET voltage     == Get(parameters, "voltage", 2200)
        temperature == Get(parameters, "temperature", 65000)
        time        == Get(parameters, "leaching_time", 8000)
        electrowinning_cost == Mul(voltage, time) * 15
        heating_cost        == TDiv(Mul(Max(0, temperature - 25000), time) * 8, 10)
    IN  electrowinning_cost + heating_cost

estimate_time_cost(parameters) ==
    LET time           == Get(parameters, "leaching_time", 8000)
        retention_time == Get(parameters, "retention_time", time)
    IN  (time + retention_time) * 12

estimate_processing_time(parameters) ==
    LET leaching_time == Get(parameters, "leaching_time", 8000)
        temperature   == Get(parameters, "temperature", 65000)
        acid_conc     == Get(parameters, "acid_concentration", 1500)
        t1 == IF temperature < 50000 THEN TDiv(leaching_time * 15, 10) ELSE leaching_time
    IN  IF acid_conc < 1000 THEN TDiv(t1 * 13, 10) ELSE t1

\* the parameters each objective's formula reads
ReadKeys(objective) ==
    CASE objective = "maximize_efficiency" ->
            {"temperature", "acid_concentration", "leaching_time", "ore_grade", "voltage"}
      [] objective = "minimize_cost" ->
            {"acid_concentration", "reagent_dosage", "voltage", "temperature",
             "leaching_time", "retention_time"}
      [] objective = "maximize_purity" -> {"voltage", "current_density", "temperature"}
      [] objective = "minimize_time" -> {"leaching_time", "temperature", "acid_concentration"}
      [] OTHER ->
            {"temperature", "acid_concentration", "leaching_time", "ore_grade",
             "reagent_dosage"}

\* OptimizationEngine._calculate_objective_value, for a map whose values the
\* objective reads are numbers
objective_value(parameters, objective) ==
    CASE objective = "maximize_efficiency" ->
            Mul(estimate_recovery(parameters), estimate_energy_efficiency(parameters))
      [] objective = "minimize_cost" ->
            estimate_reagent_cost(parameters) + estimate_energy_cost(parameters)
                + estimate_time_cost(parameters)
      [] objective = "maximize_purity" -> estimate_purity(parameters)
      [] objective = "minimize_time" -> estimate_processing_time(parameters)
      [] OTHER ->
            LET efficiency  == estimate_recovery(parameters)
                cost_factor == TDiv(U * U, Max(100, TDiv(estimate_reagent_cost(parameters), 100)))
            IN  Mul(efficiency, cost_factor)

\* arithmetic on a value that is not a number raises TypeError
calculate_objective_value(parameters, objective) ==
    IF ReadKeys(objective) \cap NonNumericKeys(parameters) # {}
    THEN [error |-> "TypeError", value |-> 0]
    ELSE [error |-> "", value |-> objective_value(parameters, objective)]

-----------------------------------------------------------------------------
(* numpy *)

\* np.random.normal(0, 1) at position g of the generator
Sample(g) == stream[(g % Len(stream)) + 1]

\* np.random.seed(42): the position of the generator afterwards
UnseededPosition == rng
SeededPosition == 0

\* np.clip(x, lower, upper) == minimum(maximum(x, lower), upper)
ClipLowerOnly(x, lower, upper) == Max(lower, x)
Clip(x, lower, upper) == Min(upper, Max(lower, x))

-----------------------------------------------------------------------------
(* The heuristic search: OptimizationEngine._simulate_optimization *)

param_strategies ==
    [temperature        |-> [maximize_efficiency |-> 800, minimize_cost |-> -600,
                             maximize_purity |-> 700, minimize_time |-> 900],
     acid_concentration |-> [maximize_efficiency |-> 600, minimize_cost |-> -800,
                             maximize_purity |-> 400, minimize_time |-> 700],
     voltage            |-> [maximize_efficiency |-> 500, minimize_cost |-> -700,
                             maximize_purity |-> 900, minimize_time |-> 600],
     leaching_time      |-> [maximize_efficiency |-> 700, minimize_cost |-> -500,
                             maximize_purity |-> 800, minimize_time |-> -900]]

get_improvement_factor(param, objective, iteration, max_iterations) ==
    LET base_factor ==
            IF param \in DOMAIN param_strategies
               /\ objective \in DOMAIN param_strategies[param]
            THEN param_strategies[param][objective]
            ELSE 500
        convergence_factor == U - TDiv(iteration * U, max_iterations)
    IN  Mul(base_factor, convergence_factor)

\* one pass of the inner loop (lines 177-188) over the entries i.. of the
\* candidate.  np.random.normal raises ValueError when its scale is negative.
\* lines 178-188 for the numeric entry i of the candidate: one draw of
\* np.random.normal, scaled, added and clipped to the entry's bounds
Perturb(cand, bounds, objective, iteration, max_iterations, i, g) ==
    LET lower == bounds[i][1]
        upper == bounds[i][2]
        improvement_factor ==
            get_improvement_factor(cand[i].name, objective, iteration, max_iterations)
        scale == TDiv((upper - lower) * 5, 100)
        adjustment == Mul(Mul(Sample(g), scale), improvement_factor)
        new_value == Clip(cand[i].val + adjustment, lower, upper)
    IN  IF upper < lower
        THEN [error |-> "ValueError", params |-> cand, rng |-> g]
        ELSE [error |-> "", params |-> [cand EXCEPT ![i].val = new_value],
              rng |-> (g + 1) % Len(stream)]

RECURSIVE PerturbPass(_, _, _, _, _, _, _)
PerturbPass(cand, bounds, objective, iteration, max_iterations, i, g) ==
    LET next(r) ==
            IF r.error # "" THEN r
            ELSE PerturbPass(r.params, bounds, objective, iteration, max_iterations,
                             i + 1, r.rng)
    IN  IF i > Len(cand) THEN [error |-> "", params |-> cand, rng |-> g]
        ELSE IF ~cand[i].num
        THEN PerturbPass(cand, bounds, objective, iteration, max_iterations, i + 1, g)
        ELSE next(Perturb(cand, bounds, objective, iteration, max_iterations, i, g))

\* the test of lines 190-191 after a pass, reading >= for >
EarlyConvergenceAtThreshold(iteration, max_iterations, convergence_rate) ==
    iteration * U >= max_iterations * convergence_rate
\* lines 190-191: iteration > max_iterations * convergence_rate, the rate in
\* thousandths
EarlyConvergence(iteration, max_iterations, convergence_rate) ==
    iteration * U > max_iterations * convergence_rate

\* one pass of the for loop of lines 175-192 from the loop's state s, and the
\* test of lines 190-192 after it; `passes` counts the passes run so far
OnePass(s, bounds, objective, convergence_rate, max_iterations, iteration) ==
    LET after(pass) ==
            [error |-> pass.error, params |-> pass.params, rng |-> pass.rng,
             passes |-> IF pass.error # "" THEN iteration ELSE iteration + 1,
             stopped |-> \/ pass.error # ""
                         \/ EarlyConvergence(iteration, max_iterations, convergence_rate)]
    IN  after(PerturbPass(s.params, bounds, objective, iteration, max_iterations, 1, s.rng))

\* the passes lo .. hi - 1 of the loop, in order, unless it stopped before;
\* the range is halved so that the evaluation stays shallow
RECURSIVE IterateRange(_, _, _, _, _, _, _)
IterateRange(s, bounds, objective, convergence_rate, max_iterations, lo, hi) ==
    IF s.stopped \/ lo >= hi THEN s
    ELSE IF hi = lo + 1
    THEN OnePass(s, bounds, objective, convergence_rate, max_iterations, lo)
    ELSE IterateRange(IterateRange(s, bounds, objective, convergence_rate,
                                   max_iterations, lo, (lo + hi) \div 2),
                      bounds, objective, convergence_rate, max_iterations,
                      (lo + hi) \div 2, hi)

\* the for loop of lines 175-192: range(max_iterations), left early by break
Iterate(cand, bounds, objective, convergence_rate, max_iterations, g) ==
    IterateRange([error |-> "", params |-> cand, rng |-> g, passes |-> 0,
                  stopped |-> FALSE],
                 bounds, objective, convergence_rate, max_iterations, 0, max_iterations)

\* whether optimized_performance is a numpy float rather than a Python one:
\* the recovery estimate goes through np.sqrt, and np.clip made every number
\* the objective reads a numpy float if a pass ran.  (A formula whose every
\* factor ends at a Python constant cap is a Python float again: not modelled.)
IsNumpy(parameters, objective, passes) ==
    \/ objective \notin {"minimize_cost", "maximize_purity", "minimize_time"}
    \/ /\ passes >= 1
       /\ \E i \in 1..Len(parameters) :
              parameters[i].num /\ parameters[i].name \in ReadKeys(objective)

\* lines 197-206: the improvement in thousandths of a percent, clamped.
\* Dividing by a zero baseline raises ZeroDivisionError between Python floats;
\* with a numpy operand it yields inf, -inf or nan, and max(0, min(50, x))
\* makes 50 of inf and of nan, 0 of -inf.
improvement_pct(baseline, optimized, objective, numpy) ==
    LET improvement_value ==
            IF Contains(objective, "minimize") THEN baseline - optimized
            ELSE optimized - baseline
        positive == (improvement_value > 0) = (baseline > 0)
        n == Abs(improvement_value) * 100
        d == Abs(baseline)
    IN  IF baseline = 0
        THEN IF ~numpy THEN [error |-> "ZeroDivisionError", pct |-> 0]
             ELSE [error |-> "", pct |-> IF improvement_value < 0 THEN 0 ELSE 50000]
        ELSE [error |-> "",
              pct |-> IF improvement_value = 0 \/ ~positive THEN 0
                      ELSE IF n >= 50 * d THEN 50000
                      ELSE Max(0, Min(50000, LongDiv(n, d, 3)))]

\* f"{x:.1f}" of a non-negative x: tenths, rounded
Format1(x) == (x + 50) \div 100

\* line 209: the optimization score of a clamped improvement percentage
optimization_score_unscaled(improvement) == Min(100 * U, 70 * U + improvement)
optimization_score(improvement) == Min(100 * U, 70 * U + TDiv(improvement * 6, 10))

\* lines 212-214: the confidence of an algorithm's convergence rate for a
\* map of parameter_count parameters
confidence_level_growing(convergence_rate, parameter_count) ==
    Max(500, convergence_rate + Min(200, parameter_count * 20))
confidence_level(convergence_rate, parameter_count) ==
    Max(500, convergence_rate - Min(200, parameter_count * 20))

\* lines 194-222, given the baseline of line 169 and the outcome of the loop:
\* the error raised, or the dictionary of lines 216-222 with the performances
\* it was computed from
evaluate_search(algorithm, parameters, objective, baseline, loop) ==
    LET convergence_rate == optimization_algorithms[algorithm].convergence_rate
        max_iterations == config
        failed(e, g) == [error |-> e, rng |-> g]
        confidence == confidence_level(convergence_rate, Len(parameters))
        optimized == calculate_objective_value(loop.params, objective)
        imp == improvement_pct(baseline.value, optimized.value, objective,
                               IsNumpy(parameters, objective, loop.passes))
        score == optimization_score(imp.pct)
    IN  IF baseline.error # "" THEN failed(baseline.error, SeededPosition)
        ELSE IF loop.error # "" THEN failed(loop.error, loop.rng)
        ELSE IF imp.error # "" THEN failed(imp.error, loop.rng)
        ELSE IF max_iterations = 0 THEN failed("UnboundLocalError", loop.rng)
        ELSE [error |-> "", rng |-> loop.rng,
              optimized_parameters |-> loop.params,
              improvement |-> Format1(imp.pct),
              iterations |-> loop.passes,
              score |-> Format1(score),
              confidence |-> confidence,
              baseline_performance |-> baseline.value,
              optimized_performance |-> optimized.value,
              improvement_pct |-> imp.pct]

\* the outcome of the search: seed, baseline, loop and evaluation
simulate_optimization(algorithm, parameters, objective, bounds) ==
    evaluate_search(algorithm, parameters, objective,
                    calculate_objective_value(parameters, objective),
                    Iterate(parameters, bounds, objective,
                            optimization_algorithms[algorithm].convergence_rate,
                            config, SeededPosition))

-----------------------------------------------------------------------------
(* The recommendation generator *)

Line(text) == [kind |-> "line", text |-> text, param |-> "", from |-> 0, to |-> 0]

\* f"{x:.2f}" of a value in thousandths: hundredths, rounded
Format2(x) == IF x >= 0 THEN (x + 5) \div 10 ELSE -((-x + 5) \div 10)

\* abs(opt_value - orig_value) / orig_value > 0.05 (line 425), the optimized
\* value being a numpy float: a zero original gives inf (or nan when nothing
\* changed), a negative original a negative quotient
ChangeExceedsThreshold(orig_value, opt_value) ==
    IF orig_value > 0 THEN Abs(opt_value - orig_value) * 20 > orig_value
    ELSE IF orig_value = 0 THEN opt_value # orig_value
    ELSE FALSE

\* lines 421-435 for the entries i.. of the optimized map; subtracting values
\* that are not numbers raises TypeError
RECURSIVE ParameterRecommendations(_, _, _)
ParameterRecommendations(original, optimized, i) ==
    IF i > Len(optimized) THEN [error |-> "", lines |-> <<>>]
    ELSE IF ~optimized[i].num THEN [error |-> "TypeError", lines |-> <<>>]
    ELSE LET orig_value == Get(original, optimized[i].name, 0)
             opt_value  == optimized[i].val
             rest == ParameterRecommendations(original, optimized, i + 1)
             sentence == [kind |-> IF opt_value > orig_value THEN "Increase" ELSE "Decrease",
                          text |-> "", param |-> optimized[i].name,
                          from |-> Format2(orig_value), to |-> Format2(opt_value)]
         IN  IF rest.error # "" THEN rest
             ELSE IF ChangeExceedsThreshold(orig_value, opt_value)
             THEN [error |-> "", lines |-> <<sentence>> \o rest.lines]
             ELSE rest

ObjectiveLines(objective) ==
    CASE objective = "maximize_efficiency" ->
            <<Line("Monitor recovery rates closely during implementation"),
              Line("Consider staged implementation to validate improvements")>>
      [] objective = "minimize_cost" ->
            <<Line("Implement cost tracking to verify savings"),
              Line("Balance cost reduction with quality requirements")>>
      [] objective = "maximize_purity" ->
            <<Line("Increase analytical testing frequency during optimization"),
              Line("Ensure downstream processes can handle purity changes")>>
      [] objective = "minimize_time" ->
            <<Line("Verify that time reduction doesn't compromise quality"),
              Line("Update production schedules based on new cycle times")>>
      [] OTHER -> <<>>

\* improvement is the formatted string of the search, parsed back (line 459)
generate_optimization_recommendations(original_params, optimization_result, objective) ==
    LET changes == ParameterRecommendations(original_params,
                                            optimization_result.optimized_parameters, 1)
        improvement_pct_parsed == optimization_result.improvement
    IN  IF changes.error # "" THEN changes
        ELSE [error |-> "",
              lines |-> changes.lines
                  \o ObjectiveLines(objective)
                  \o <<Line("Implement changes gradually to assess individual impacts"),
                       Line("Establish monitoring protocols for key performance indicators")>>
                  \o (IF improvement_pct_parsed > 200
                      THEN <<Line("High improvement potential - consider pilot testing before full implementation")>>
                      ELSE <<>>)]

-----------------------------------------------------------------------------
(* OptimizationEngine.optimize, as a function of the session's state *)

\* the dictionary built at lines 77-88 (without its timestamp).  The value of
\* 'original_parameters' is the caller's dictionary itself, not a copy: it is
\* the reference "caller_map", read through Deref.
ResultOf(algorithm, objective, optimization_result, recommendations) ==
    [operation |-> "optimize",
     algorithm |-> algorithm,
     objective |-> objective,
     original_parameters |-> "caller_map",
     optimized_parameters |-> optimization_result.optimized_parameters,
     improvement |-> optimization_result.improvement,
     convergence_iterations |-> optimization_result.iterations,
     optimization_score |-> optimization_result.score,
     recommendations |-> recommendations,
     confidence_level |-> optimization_result.confidence]

\* lines 74-94, given what lines 65-71 returned: the recommendations and
\* the result dictionary
finish_optimize(parameters, objective, algorithm, bounds, optimization_result) ==
    LET finish(recommendations) ==
            IF optimization_result.error # ""
            THEN [error |-> optimization_result.error, rng |-> optimization_result.rng]
            ELSE IF recommendations.error # ""
            THEN [error |-> recommendations.error, rng |-> optimization_result.rng]
            ELSE [error |-> "", rng |-> optimization_result.rng,
                  bounds |-> bounds,
                  search |-> optimization_result,
                  result |-> ResultOf(algorithm, objective, optimization_result,
                                      recommendations.lines)]
    IN  finish(generate_optimization_recommendations(parameters, optimization_result,
                                                     objective))

\* the outcome of optimize(parameters, objective): the error raised or the
\* result, and the generator's position afterwards
optimize(parameters, objective) ==
    LET algorithm == select_algorithm(parameters, objective)
        bounds == define_parameter_bounds(parameters)
        finish(optimization_result) ==
            finish_optimize(parameters, objective, algorithm, bounds, optimization_result)
    IN  finish(simulate_optimization(algorithm, parameters, objective, bounds))

\* a dictionary of the history as a reader sees it: the reference followed
Deref(result, caller_map) == [result EXCEPT !.original_parameters = caller_map]

-----------------------------------------------------------------------------
(* OptimizationEngine.multi_objective_optimization *)

RECURSIVE SumSeq(_)
SumSeq(s) == IF s = <<>> THEN 0 ELSE Head(s) + SumSeq(Tail(s))

\* [w / weight_sum for w in weights]
Normalize(weights, weight_sum) ==
    [k \in 1..Len(weights) |-> TDiv(weights[k] * U, weight_sum)]

\* lines 493-497: one draw per weight, negative weights cut to 0, the vector
\* divided by its sum when that is positive
VariedWeights(weights, g) ==
    LET drawn == [k \in 1..Len(weights) |->
                     Max(0, weights[k] + TDiv(Sample(g + k - 1), 10))]
        weight_sum == SumSeq(drawn)
    IN  IF weight_sum > 0 THEN Normalize(drawn, weight_sum) ELSE drawn

\* lines 508-511: zip stops at the shorter of objectives and varied_weights
RECURSIVE TotalAdjustment(_, _, _, _)
TotalAdjustment(param, objectives, varied_weights, k) ==
    IF k > Len(objectives) \/ k > Len(varied_weights) THEN 0
    ELSE Mul(get_improvement_factor(param, objectives[k], 50, 100), varied_weights[k])
         + TotalAdjustment(param, objectives, varied_weights, k + 1)

\* lines 503-516 for the entries i.. of one solution
RECURSIVE SolutionParams(_, _, _, _, _, _)
SolutionParams(solution_params, bounds, objectives, varied_weights, i, g) ==
    IF i > Len(solution_params) THEN [error |-> "", params |-> solution_params, rng |-> g]
    ELSE IF ~solution_params[i].num
    THEN SolutionParams(solution_params, bounds, objectives, varied_weights, i + 1, g)
    ELSE LET lower == bounds[i][1]
             upper == bounds[i][2]
             total_adjustment ==
                 TotalAdjustment(solution_params[i].name, objectives, varied_weights, 1)
             scale == TDiv(upper - lower, 10)
             adjustment == Mul(Mul(Sample(g), scale), total_adjustment)
             new_value == Clip(solution_params[i].val + adjustment, lower, upper)
         IN  IF upper < lower
             THEN [error |-> "ValueError", params |-> solution_params, rng |-> g]
             ELSE SolutionParams([solution_params EXCEPT ![i].val = new_value], bounds,
                                 objectives, varied_weights, i + 1, (g + 1) % Len(stream))

\* lines 519-521; the values are listed in the order of objectives
ObjectiveValues(solution_params, objectives) ==
    LET values == [k \in 1..Len(objectives) |->
                      calculate_objective_value(solution_params, objectives[k])]
    IN  IF \E k \in 1..Len(objectives) : values[k].error # ""
        THEN [error |-> "TypeError", values |-> <<>>]
        ELSE [error |-> "", values |-> [k \in 1..Len(objectives) |-> values[k].value]]

\* a solution starting from the solution generated before it
SolutionStartChained(parameters, previous) == previous

\* line 500: solution_params = parameters.copy(), whatever was generated before
SolutionStart(parameters, previous) == parameters

\* the loop of lines 491-527 from solution number n on, `previous` being the
\* parameters of solution n - 1 (the caller's for the first)
RECURSIVE ParetoSolutions(_, _, _, _, _, _, _)
ParetoSolutions(parameters, previous, bounds, objectives, weights, n, g) ==
    IF n > 5 THEN [error |-> "", solutions |-> <<>>, rng |-> g]
    ELSE LET varied_weights == VariedWeights(weights, g)
             g1 == (g + Len(weights)) % Len(stream)
             sol == SolutionParams(SolutionStart(parameters, previous), bounds, objectives,
                                   varied_weights, 1, g1)
             objective_values == ObjectiveValues(sol.params, objectives)
             rest == ParetoSolutions(parameters, sol.params, bounds, objectives, weights,
                                     n + 1, sol.rng)
         IN  IF sol.error # "" THEN [error |-> sol.error, solutions |-> <<>>, rng |-> sol.rng]
             ELSE IF objective_values.error # ""
             THEN [error |-> objective_values.error, solutions |-> <<>>, rng |-> sol.rng]
             ELSE IF rest.error # "" THEN rest
             ELSE [error |-> "", rng |-> rest.rng,
                   solutions |-> <<[parameters |-> sol.params,
                                    objectives |-> objective_values.values,
                                    weights |-> varied_weights]>> \o rest.solutions]

\* lines 563-573, the optimized values being numpy floats
RECURSIVE MultiParameterRecommendations(_, _, _)
MultiParameterRecommendations(original, optimized, i) ==
    IF i > Len(optimized) THEN [error |-> "", lines |-> <<>>]
    ELSE IF ~optimized[i].num THEN [error |-> "TypeError", lines |-> <<>>]
    ELSE LET orig_value == Get(original, optimized[i].name, 0)
             opt_value  == optimized[i].val
             rest == MultiParameterRecommendations(original, optimized, i + 1)
             sentence == [kind |-> "Adjust", text |-> "", param |-> optimized[i].name,
                          from |-> Format2(orig_value), to |-> Format2(opt_value)]
         IN  IF rest.error # "" THEN rest
             ELSE IF ChangeExceedsThreshold(orig_value, opt_value)
             THEN [error |-> "", lines |-> <<sentence>> \o rest.lines]
             ELSE rest

generate_multi_objective_recommendations(original_params, best_solution, objectives) ==
    LET changes == MultiParameterRecommendations(original_params, best_solution.parameters, 1)
    IN  IF changes.error # "" THEN changes
        ELSE [error |-> "",
              lines |-> <<Line("Multi-objective optimization complete - analyze trade-offs carefully")>>
                  \o changes.lines
                  \o <<Line("Monitor all objectives during implementation to ensure balanced performance"),
                       Line("Consider adjusting objective weights based on business priorities"),
                       Line("Validate Pareto solutions through pilot testing")>>]

\* line 529: best_solution = pareto_solutions[0]
BestByFirstObjective(pareto_solutions) ==
    IF pareto_solutions = <<>> \/ pareto_solutions[1].objectives = <<>>
    THEN pareto_solutions[1]
    ELSE pareto_solutions[
             CHOOSE k \in 1..Len(pareto_solutions) :
                 \A j \in 1..Len(pareto_solutions) :
                     \/ pareto_solutions[j].objectives[1] < pareto_solutions[k].objectives[1]
                     \/ (pareto_solutions[j].objectives[1] = pareto_solutions[k].objectives[1]
                         /\ k <= j)]
BestCompromise(pareto_solutions) == pareto_solutions[1]

\* the outcome of multi_objective_optimization(parameters, objectives, weights)
\* with the generator at position g; weights is <<>> for None
multi_objective_optimization(parameters, objectives, weights, g) ==
    LET n == Len(objectives)
        given == IF weights = <<>> THEN [k \in 1..n |-> TDiv(U, n)] ELSE weights
        weight_sum == SumSeq(given)
        normalized == Normalize(given, weight_sum)
        bounds == define_parameter_bounds(parameters)
        \* lines 530-551, given the outcome of the loop and the recommendations
        finish(pareto, best_solution, recommendations) ==
            IF pareto.error # "" THEN [error |-> pareto.error, rng |-> pareto.rng]
            ELSE IF recommendations.error # ""
            THEN [error |-> recommendations.error, rng |-> pareto.rng]
            ELSE [error |-> "", rng |-> pareto.rng,
                  bounds |-> bounds,
                  result |-> [operation |-> "multi_objective_optimization",
                              algorithm |-> "genetic_algorithm",
                              objective |-> "Multi-objective optimization",
                              objectives |-> objectives,
                              weights |-> normalized,
                              original_parameters |-> "caller_map",
                              pareto_solutions |-> pareto.solutions,
                              best_compromise |-> best_solution,
                              optimized_parameters |-> best_solution.parameters,
                              improvement |-> "See individual objective improvements",
                              recommendations |-> recommendations.lines]]
        recommend(pareto, best_solution) ==
            finish(pareto, best_solution,
                   generate_multi_objective_recommendations(parameters, best_solution,
                                                            objectives))
        select(pareto) == recommend(pareto, BestCompromise(pareto.solutions))
    IN  IF (weights = <<>> /\ n = 0) \/ weight_sum = 0
        THEN [error |-> "ZeroDivisionError", rng |-> g]
        ELSE select(ParetoSolutions(parameters, parameters, bounds, objectives, normalized,
                                    1, g))

-----------------------------------------------------------------------------
(* Bounds and inputs of the model *)

MaxCalls == 3           \* optimization calls per behaviour
StreamLen == 3          \* length of the generator's cycle

\* standard normal samples, in thousandths
Draws == {-2000, 1000}

\* the cycles of the session specification: the two that alternate the draws
SessionStreams ==
    { [i \in 1..StreamLen |-> IF i % 2 = 1 THEN 1000 ELSE -2000],
      [i \in 1..StreamLen |-> IF i % 2 = 1 THEN -2000 ELSE 1000] }

Num(name, val) == Entry(name, TRUE, val)
Str(name) == Entry(name, FALSE, 0)

\* parameter maps of the session specification: a well-formed one and one with
\* a value that is not a number
SessionMaps ==
    { <<Num("temperature", 65000)>>,
      <<Num("temperature", 65000), Str("note")>> }

SessionObjectives == {"maximize_purity"}

SessionObjectiveLists == { <<"maximize_purity", "minimize_cost">> }

\* parameter maps of the single-call specification: temperature absent,
\* negative, below 25 (negative recovery), 25 (zero recovery), nominal, just
\* inside and above its upper bound;
\* then nothing, a known parameter above its bound, unknown parameters of
\* either sign and near zero, a value that is not a number, zeros
FirstEntries ==
    { <<>>, <<Num("temperature", -10000)>>, <<Num("temperature", 20000)>>,
      <<Num("temperature", 25000)>>,
      <<Num("temperature", 65000)>>, <<Num("temperature", 94000)>>,
      <<Num("temperature", 120000)>> }

SecondEntries ==
    { <<>>, <<Num("acid_concentration", 6000)>>, <<Num("dose", -1000)>>,
      <<Num("dose", 3000)>>, <<Num("dose", 40)>>, <<Str("note")>>,
      <<Num("leaching_time", 0)>>, <<Num("voltage", 0)>> }

\* every known parameter but the last, at a nominal value
NominalEntries ==
    <<Num("ore_grade", 2500), Num("leaching_time", 8000), Num("acid_concentration", 1500),
      Num("temperature", 65000), Num("voltage", 2200), Num("current_density", 300000),
      Num("pH", 2000), Num("pressure", 1000), Num("flow_rate", 50000),
      Num("particle_size", 1000), Num("reagent_dosage", 2000)>>

\* maps of more than 6 and of more than 10 parameters
LargeMaps == {SubSeq(NominalEntries, 1, 7), NominalEntries}

\* a map whose improvement under minimize_time, after one pass with the draw
\* 1.0, is 20.02%: just above the threshold of the pilot-test caution
ThresholdMaps == { <<Num("leaching_time", 10340)>> }

FnMaps ==
    {a \o b : a \in FirstEntries, b \in SecondEntries} \cup LargeMaps \cup ThresholdMaps

FnObjectives ==
    {"maximize_efficiency", "minimize_cost", "maximize_purity", "minimize_time", "balance",
     "cost_minimize", "Minimize_Cost"}

\* WarpConfig.OPTIMIZATION_ITERATIONS, by default
OPTIMIZATION_ITERATIONS == 100

\* values of the configuration field OPTIMIZATION_ITERATIONS
FnIterations == {0, 1, 3, OPTIMIZATION_ITERATIONS}

-----------------------------------------------------------------------------
(* The session: state and operations *)

NoCall == [operation |-> "none", error |-> ""]

\* self.optimization_history.append(result)
AppendResultEvicting(history, result) ==
    IF Len(history) >= 2 THEN Append(Tail(history), result) ELSE Append(history, result)
AppendResult(history, result) == Append(history, result)

\* OptimizationEngine.get_optimization_history returns the list object itself
get_optimization_history == "optimization_history"

\* the list the caller's variable refers to
HeldList == IF held = "optimization_history" THEN optimization_history ELSE heldAt

Init ==
    /\ config = OPTIMIZATION_ITERATIONS
    /\ optimization_history = <<>>
    /\ heap \in SessionMaps
    /\ stream \in SessionStreams
    /\ rng \in 0..(StreamLen - 1)
    /\ held = "None"
    /\ heldAt = <<>>
    /\ returned = <<>>
    /\ calls = 0
    /\ last = NoCall
    /\ threads = <<>>
    /\ conversation_history = <<>>

\* the caller's dictionary after a call, were the candidate the dictionary
\* itself: it holds what was written to the candidate
CallerMapAliased(parameters, written) == written
\* the caller's dictionary after a call that wrote `written` to its candidate:
\* the candidate is parameters.copy() (lines 172 and 500), another object, and
\* nothing else assigns to a key of a dictionary
CallerMapAfter(parameters, written) == parameters

\* optimize(parameters, objective) with the caller's map as parameters
Optimize(objective) ==
    /\ calls < MaxCalls
    /\ \E out \in {optimize(heap, objective)} :
           /\ rng' = out.rng
           /\ heap' = IF out.error = ""
                      THEN CallerMapAfter(heap, out.result.optimized_parameters)
                      ELSE heap
           /\ IF out.error = ""
              THEN /\ optimization_history' = AppendResult(optimization_history, out.result)
                   /\ returned' = Append(returned, Deref(out.result, heap))
              ELSE UNCHANGED <<optimization_history, returned>>
           /\ last' = [operation |-> "optimize", error |-> out.error,
                       parameters |-> heap, objective |-> objective, out |-> out]
    /\ calls' = calls + 1
    /\ UNCHANGED <<conversation_history, threads, config, stream, held, heldAt>>

\* multi_objective_optimization(parameters, objectives, weights)
MultiObjective(objectives, weights) ==
    /\ calls < MaxCalls
    /\ \E out \in {multi_objective_optimization(heap, objectives, weights, rng)} :
           /\ rng' = out.rng
           /\ heap' = IF out.error = ""
                      THEN CallerMapAfter(heap, out.result.pareto_solutions[5].parameters)
                      ELSE heap
           /\ IF out.error = ""
              THEN /\ optimization_history' = AppendResult(optimization_history, out.result)
                   /\ returned' = Append(returned, Deref(out.result, heap))
              ELSE UNCHANGED <<optimization_history, returned>>
           /\ last' = [operation |-> "multi_objective_optimization", error |-> out.error,
                       parameters |-> heap, objectives |-> objectives,
                       weights |-> weights, start |-> rng, out |-> out]
    /\ calls' = calls + 1
    /\ UNCHANGED <<conversation_history, threads, config, stream, held, heldAt>>

\* the caller keeps what get_optimization_history() returned (asked for once)
GetHistory ==
    /\ held = "None"
    /\ held' = get_optimization_history
    /\ heldAt' = optimization_history
    /\ UNCHANGED <<conversation_history, threads, config, optimization_history, heap, stream, rng, returned, calls, last>>

\* a simulator call in the same process (ExtractionSimulator.simulate): it
\* seeds the global generator and draws its synthetic data and noise from it
DrawsOfSimulate == 9 * 1000 + 4

Simulate ==
    /\ rng # DrawsOfSimulate % Len(stream)
    /\ rng' = DrawsOfSimulate % Len(stream)
    /\ UNCHANGED <<conversation_history, threads, config, optimization_history, heap, stream, held, heldAt, returned,
                   calls, last>>

\* the caller changes the dictionary it passed to earlier calls
CallerAssign(m) ==
    /\ m # heap
    /\ heap' = m
    /\ UNCHANGED <<conversation_history, threads, config, optimization_history, stream, rng, held, heldAt, returned,
                   calls, last>>

Next ==
    \/ \E objective \in SessionObjectives : Optimize(objective)
    \/ \E objectives \in SessionObjectiveLists : MultiObjective(objectives, <<>>)
    \/ GetHistory
    \/ Simulate
    \/ \E m \in SessionMaps : CallerAssign(m)

Spec == Init /\ [][Next]_vars

\* One call on a fresh session, over the wide input sets
InitFn ==
    /\ config \in FnIterations
    /\ optimization_history = <<>>
    /\ heap \in FnMaps
    /\ stream \in [1..StreamLen -> Draws]
    /\ rng = 0
    /\ held = "None"
    /\ heldAt = <<>>
    /\ returned = <<>>
    /\ calls = 0
    /\ last = NoCall
    /\ threads = <<>>
    /\ conversation_history = <<>>

NextFn == \E objective \in FnObjectives : calls = 0 /\ Optimize(objective)

SpecFn == InitFn /\ [][NextFn]_vars

-----------------------------------------------------------------------------
(* One multi-objective call on a fresh session, over wide input sets *)

MultiMaps ==
    { <<>>, <<Num("temperature", 65000)>>,
      <<Num("temperature", 65000), Num("voltage", 2200)>>,
      <<Num("temperature", 65000), Str("note")>>,
      <<Num("temperature", 120000), Num("dose", 3000)>>,
      <<Num("dose", -1000)>> }

\* objectives lists: none, one, two, and all five objectives of the model
MultiObjectiveLists ==
    { <<>>, <<"maximize_purity">>, <<"maximize_purity", "minimize_cost">>,
      <<"maximize_efficiency", "minimize_cost", "maximize_purity", "minimize_time",
        "balance">> }

\* weights: None, then vectors that are normalized already, that are not,
\* with a negative weight, shorter than the objectives, and summing to zero
MultiWeights ==
    { <<>>, <<500, 500>>, <<1000, 3000>>, <<2000, -1000>>, <<1000>>, <<1000, -1000>> }

InitMulti ==
    /\ config = OPTIMIZATION_ITERATIONS
    /\ optimization_history = <<>>
    /\ heap \in MultiMaps
    /\ stream \in [1..StreamLen -> Draws]
    /\ rng = 0
    /\ held = "None"
    /\ heldAt = <<>>
    /\ returned = <<>>
    /\ calls = 0
    /\ last = NoCall
    /\ threads = <<>>
    /\ conversation_history = <<>>

NextMulti ==
    \E objectives \in MultiObjectiveLists, weights \in MultiWeights :
        calls = 0 /\ MultiObjective(objectives, weights)

SpecMulti == InitMulti /\ [][NextMulti]_vars

-----------------------------------------------------------------------------
(* The algorithm selector and the bounds resolver on their own *)

\* objective strings: the named ones, one with no keyword, several keywords
\* at once, and upper case
PureObjectives ==
    FnObjectives \cup {"multi_objective", "multi_time", "pareto_cost",
                       "minimize_cost_and_time", "Minimize_Cost", "TIME"}

\* parameter maps: 0 to 11 known parameters; an unknown parameter that is
\* negative, zero, below 0.05, 0.05, below 0.1, 0.1, ordinary, large, or not
\* a number; a known parameter that is not a number
PureMaps ==
    {SubSeq(NominalEntries, 1, n) : n \in 0..Len(NominalEntries)}
    \cup {<<Num("dose", v)>> : v \in {-1000, 0, 40, 50, 80, 100, 3000, 1000000}}
    \cup {<<Str("note")>>, <<Str("temperature")>>,
          <<Num("temperature", 65000), Num("dose", 80), Str("note")>>}

\* self._select_algorithm(parameters, objective)
SelectAlgorithm(objective) ==
    /\ calls = 0
    /\ last' = [operation |-> "select_algorithm", error |-> "",
                parameters |-> heap, objective |-> objective,
                out |-> select_algorithm(heap, objective)]
    /\ calls' = calls + 1
    /\ UNCHANGED <<conversation_history, threads, config, optimization_history, heap, stream, rng, held, heldAt,
                   returned>>

\* self._define_parameter_bounds(parameters)
DefineParameterBounds ==
    /\ calls = 0
    /\ last' = [operation |-> "define_parameter_bounds", error |-> "",
                parameters |-> heap, out |-> define_parameter_bounds(heap)]
    /\ calls' = calls + 1
    /\ UNCHANGED <<conversation_history, threads, config, optimization_history, heap, stream, rng, held, heldAt,
                   returned>>

InitPure ==
    /\ config = OPTIMIZATION_ITERATIONS
    /\ optimization_history = <<>>
    /\ heap \in PureMaps
    /\ stream \in SessionStreams
    /\ rng = 0
    /\ held = "None"
    /\ heldAt = <<>>
    /\ returned = <<>>
    /\ calls = 0
    /\ last = NoCall
    /\ threads = <<>>
    /\ conversation_history = <<>>

NextPure ==
    \/ \E objective \in PureObjectives : SelectAlgorithm(objective)
    \/ DefineParameterBounds

SpecPure == InitPure /\ [][NextPure]_vars

-----------------------------------------------------------------------------
(* Properties of a single optimize call (specification SpecFn) *)

Returned == last.operation = "optimize" /\ last.error = ""

OutOfBounds(e) ==
    e.num /\ e.name \in DOMAIN standard_bounds
          /\ (e.val < standard_bounds[e.name][1] \/ e.val > standard_bounds[e.name][2])

\* C1: every numeric value of the optimized_parameters that optimize returns
\* lies inside the bounds the Bounds Resolver produced for its parameter,
\* whatever was drawn and wherever the original value was.
OptimizedWithinBounds ==
    Returned =>
        \A i \in 1..Len(last.out.result.optimized_parameters) :
            LET e == last.out.result.optimized_parameters[i]
                b == last.out.bounds[i]
            IN  e.num => (b[1] <= e.val /\ e.val <= b[2])

\* a result was returned for a map with a value outside its bounds
C1Witness ==
    /\ Returned
    /\ \E i \in 1..Len(last.parameters) : OutOfBounds(last.parameters[i])
    /\ last.objective \in {"maximize_efficiency", "minimize_cost", "maximize_purity",
                           "minimize_time"}

\* the numbers of the map have bounds with lower <= upper
ProperBounds(parameters) ==
    \A i \in 1..Len(parameters) :
        parameters[i].num => BoundsOf(parameters[i])[1] <= BoundsOf(parameters[i])[2]

BaselineOf(call) == calculate_objective_value(call.parameters, call.objective)

\* C2: when the baseline objective value of the caller's parameters is zero
\* or negative, optimize reports an InvalidBaselineError (here for a map of
\* numbers with proper bounds and at least one configured iteration, so that
\* nothing else stops the call).
InvalidBaselineReported ==
    (/\ last.operation = "optimize"
     /\ NonNumericKeys(last.parameters) = {}
     /\ ProperBounds(last.parameters)
     /\ config > 0
     /\ BaselineOf(last).value <= 0)
    => last.error = "InvalidBaselineError"

\* the optimized objective value is worse than the baseline
Regression(search, objective) ==
    IF Contains(objective, "minimize")
    THEN search.optimized_performance > search.baseline_performance
    ELSE search.optimized_performance < search.baseline_performance

\* C3: the reported improvement percentage is within [0, 50], and a
\* regression is reported as 0.
ImprovementClampedAndRegressionZero ==
    Returned =>
        /\ 0 <= last.out.result.improvement /\ last.out.result.improvement <= 500
        /\ Regression(last.out.search, last.objective) => last.out.result.improvement = 0

\* the range alone, which the code does keep
ImprovementInRange ==
    Returned => (0 <= last.out.result.improvement /\ last.out.result.improvement <= 500)

\* C4: a call whose map holds a value that is not a number still returns a
\* result, with that parameter unchanged in optimized_parameters.
NonNumericParameterExcluded ==
    (/\ last.operation = "optimize"
     /\ NonNumericKeys(last.parameters) # {}
     /\ NonNumericKeys(last.parameters) \cap ReadKeys(last.objective) = {}
     /\ ProperBounds(last.parameters)
     /\ config > 0)
    => /\ last.error = ""
       /\ \A i \in 1..Len(last.parameters) :
              ~last.parameters[i].num
                  => last.out.result.optimized_parameters[i] = last.parameters[i]

-----------------------------------------------------------------------------
(* Properties of the session (specification Spec) *)

CallStep == calls' = calls + 1

\* C5: a failed call leaves the session as it was: the history is unchanged,
\* and so is everything later calls read (the generator they draw from).
FailedCallLeavesSessionUnchanged ==
    [][(CallStep /\ last'.error # "")
        => (optimization_history' = optimization_history /\ rng' = rng)]_vars

\* the history alone, which the code does leave unchanged
FailedCallKeepsHistory ==
    [][(CallStep /\ last'.error # "")
        => optimization_history' = optimization_history]_vars

\* C6: every successful optimize or multi-objective call appends exactly one
\* entry, its result, at the end of the history; a failed call appends
\* nothing; earlier entries keep their positions; the length of the history
\* is the number of successful calls.
HistoryAppendOnly ==
    /\ [](Len(optimization_history) = Len(returned))
    /\ [][/\ (CallStep /\ last'.error = "")
              => optimization_history' = Append(optimization_history, last'.out.result)
          /\ (CallStep /\ last'.error # "")
              => optimization_history' = optimization_history
          /\ \A i \in 1..Len(optimization_history) :
                 /\ i <= Len(optimization_history')
                 /\ optimization_history'[i] = optimization_history[i]]_vars

\* three results in the history, of both kinds of call
C6Witness ==
    /\ Len(optimization_history) = 3
    /\ \E i, j \in 1..3 :
          /\ optimization_history[i].operation = "optimize"
          /\ optimization_history[j].operation = "multi_objective_optimization"

\* C7: the list obtained from getHistory keeps the length and contents it had
\* when it was returned.
HeldListIsSnapshot == held # "None" => HeldList = heldAt

\* C8: the contents of a history entry, its original_parameters included,
\* never change once it was appended.
HistoryEntriesImmutable ==
    \A i \in 1..Len(optimization_history) :
        i <= Len(returned) => Deref(optimization_history[i], heap) = returned[i]

SameArguments(a, b) ==
    /\ a.operation = b.operation
    /\ a.original_parameters = b.original_parameters
    /\ IF a.operation = "optimize" THEN a.objective = b.objective
       ELSE a.objectives = b.objectives /\ a.weights = b.weights

\* C9: two optimize calls with identical parameters and objective return
\* results equal in every field, whatever calls were made in between.
OptimizeDeterministic ==
    \A i, j \in 1..Len(returned) :
        (returned[i].operation = "optimize" /\ SameArguments(returned[i], returned[j]))
            => returned[i] = returned[j]

\* two optimize calls with the same arguments, a multi-objective call between
C9Witness ==
    /\ Len(returned) = 3
    /\ returned[1].operation = "optimize"
    /\ returned[2].operation = "multi_objective_optimization"
    /\ SameArguments(returned[1], returned[3])

\* C10: the result of every optimization call, multi-objective ones included,
\* depends only on its own arguments.
CallsDependOnlyOnArguments ==
    \A i, j \in 1..Len(returned) :
        SameArguments(returned[i], returned[j]) => returned[i] = returned[j]


-----------------------------------------------------------------------------
(* Zero iterations (specification SpecFn) *)

\* C12: with max_iterations configured as 0, optimize performs no
\* perturbation and returns normally, its optimized_parameters equal to the
\* original parameters and its improvement percentage 0.
ZeroIterationsReturnsOriginal ==
    (last.operation = "optimize" /\ config = 0) =>
        /\ last.error = ""
        /\ last.out.result.optimized_parameters = last.parameters
        /\ last.out.result.improvement = 0


-----------------------------------------------------------------------------
(* Unknown objectives (specification SpecFn) *)

NamedObjectives ==
    {"maximize_efficiency", "minimize_cost", "maximize_purity", "minimize_time"}

\* the default composite objective: recovery times the inverse of the
\* cost-derived factor
Composite(parameters) ==
    Mul(estimate_recovery(parameters),
        TDiv(U * U, Max(100, TDiv(estimate_reagent_cost(parameters), 100))))

\* the call returned a result computed with the composite objective and
\* appended it to the history
FellBackToComposite ==
    /\ last.error = ""
    /\ last.out.search.baseline_performance = Composite(last.parameters)
    /\ last.out.search.optimized_performance
           = Composite(last.out.result.optimized_parameters)
    /\ DOMAIN last.out.result
           = {"operation", "algorithm", "objective", "original_parameters",
              "optimized_parameters", "improvement", "convergence_iterations",
              "optimization_score", "recommendations", "confidence_level"}
    /\ Len(optimization_history) = 1
    /\ optimization_history[1] = last.out.result

\* C13: an objective string that matches none of the four named objectives
\* never aborts optimize: the call evaluates the default composite objective
\* for the baseline and the optimized values, returns a complete result and
\* appends it to the history.
UnknownObjectiveNeverAborts ==
    (last.operation = "optimize" /\ last.objective \notin NamedObjectives)
        => FellBackToComposite

\* the same for the calls whose every value is a number, whose bounds are
\* proper and whose configuration runs at least one pass
UnknownObjectiveFallsBack ==
    (/\ last.operation = "optimize"
     /\ last.objective \notin NamedObjectives
     /\ NonNumericKeys(last.parameters) = {}
     /\ ProperBounds(last.parameters)
     /\ config > 0)
        => FellBackToComposite


-----------------------------------------------------------------------------
(* Score and confidence (specification SpecFn) *)

\* C14: the optimization score equals min(100, 70 + improvement_pct x 0.6),
\* so it lies in [70, 100]; it is exactly 70 when the reported improvement is
\* 0 and exactly 100 when the reported improvement is 50.  (Reported values
\* are in tenths, improvement_pct in thousandths of a percent.)
ScoreFromImprovement ==
    Returned =>
        LET pct == last.out.search.improvement_pct
            reported == last.out.result.improvement
            score == last.out.result.optimization_score
            exact == 70000 + (pct * 6) \div 10
        IN  /\ score = ((IF exact > 100000 THEN 100000 ELSE exact) + 50) \div 100
            /\ 700 <= score /\ score <= 1000
            /\ reported = 0 => score = 700
            /\ reported = 500 => score = 1000

\* a result whose improvement is strictly between 0 and 50 percent
C14Witness ==
    /\ Returned
    /\ last.out.result.improvement > 0
    /\ last.out.result.improvement < 500
    /\ last.out.result.optimization_score > 700
    /\ last.out.result.optimization_score < 1000


\* the confidence optimize reports for the first n parameters of a map
ConfidenceOfPrefix(parameters, objective, n) ==
    LET prefix == SubSeq(parameters, 1, n)
    IN  confidence_level(
            optimization_algorithms[select_algorithm(prefix, objective)].convergence_rate,
            n)

\* C15: the confidence reported by optimize equals the selected algorithm's
\* convergence_rate minus min(0.2, parameter_count x 0.02), floored at 0.5;
\* it lies in [0.5, convergence_rate] and never increases as the number of
\* parameters grows.
ConfidenceFromParameterCount ==
    Returned =>
        LET rate == optimization_algorithms[last.out.result.algorithm].convergence_rate
            n == Len(last.parameters)
            penalty == IF n * 20 > 200 THEN 200 ELSE n * 20
            confidence == last.out.result.confidence_level
        IN  /\ confidence = (IF rate - penalty < 500 THEN 500 ELSE rate - penalty)
            /\ 500 <= confidence /\ confidence <= rate
            /\ \A k \in 0..n :
                   ConfidenceOfPrefix(last.parameters, last.objective, k) >= confidence

\* a result for a map of more than ten parameters: the penalty is capped
C15Witness ==
    /\ Returned
    /\ Len(last.parameters) > 10
    /\ last.out.result.confidence_level
           = optimization_algorithms[last.out.result.algorithm].convergence_rate - 200


-----------------------------------------------------------------------------
(* Algorithm selection (specification SpecPure) *)

Selected == last.operation = "select_algorithm"

Mentions(word) == Contains(Lower(last.objective), word)

\* C16: algorithm selection is a function of the objective string and the
\* parameter count, in this priority order: 'multi' or 'pareto' ->
\* genetic_algorithm; else 'cost' -> simulated_annealing; else 'time' ->
\* particle_swarm; else more than 6 parameters -> differential_evolution;
\* else particle_swarm.  A cost or time objective never selects
\* differential_evolution, and the label is one of the four known algorithms.
SelectionByPriority ==
    Selected =>
        LET multi == Mentions("multi") \/ Mentions("pareto")
            cost  == Mentions("cost")
            time  == Mentions("time")
            many  == Len(last.parameters) > 6
        IN  /\ multi => last.out = "genetic_algorithm"
            /\ (~multi /\ cost) => last.out = "simulated_annealing"
            /\ (~multi /\ ~cost /\ time) => last.out = "particle_swarm"
            /\ (~multi /\ ~cost /\ ~time /\ many) => last.out = "differential_evolution"
            /\ (~multi /\ ~cost /\ ~time /\ ~many) => last.out = "particle_swarm"
            /\ (cost \/ time) => last.out # "differential_evolution"
            /\ last.out \in DOMAIN optimization_algorithms
            /\ \A m \in PureMaps :
                   Len(m) = Len(last.parameters)
                       => select_algorithm(m, last.objective) = last.out

\* a cost-and-time objective with more than 6 parameters
C16Witness ==
    /\ Selected
    /\ Mentions("cost") /\ Mentions("time")
    /\ Len(last.parameters) > 6
    /\ last.out = "simulated_annealing"


-----------------------------------------------------------------------------
(* The bounds resolver (specification SpecPure) *)

Resolved == last.operation = "define_parameter_bounds"

\* C17: for every key of any parameter map (known name, unknown numeric value
\* of any sign or magnitude, unknown non-numeric value) the Bounds Resolver
\* returns, without error, a range (lower, upper) with lower <= upper.
BoundsAreRanges ==
    Resolved =>
        /\ last.error = ""
        /\ Len(last.out) = Len(last.parameters)
        /\ \A i \in 1..Len(last.out) : last.out[i][1] <= last.out[i][2]

\* the entries the fallback of lines 144-149 applies to
UnknownNumeric(e) == e.num /\ e.name \notin DOMAIN standard_bounds

\* C18: for a parameter whose name is not in the known-bounds table and whose
\* value is numeric, the resolved range is (max(0.1, value x 0.5),
\* value x 2.0) and the current value lies inside it.
FallbackRangeHoldsValue ==
    Resolved =>
        \A i \in 1..Len(last.parameters) :
            LET e == last.parameters[i]
                half == IF e.val >= 0 THEN (e.val * 5) \div 10 ELSE -((-e.val * 5) \div 10)
            IN  UnknownNumeric(e) =>
                    /\ last.out[i][1] = (IF half > 100 THEN half ELSE 100)
                    /\ last.out[i][2] = e.val * 2
                    /\ last.out[i][1] <= e.val
                    /\ e.val <= last.out[i][2]

\* the range itself is the one the claim gives
FallbackRangeFormula ==
    Resolved =>
        \A i \in 1..Len(last.parameters) :
            LET e == last.parameters[i]
                half == IF e.val >= 0 THEN (e.val * 5) \div 10 ELSE -((-e.val * 5) \div 10)
            IN  UnknownNumeric(e) =>
                    /\ last.out[i][1] = (IF half > 100 THEN half ELSE 100)
                    /\ last.out[i][2] = e.val * 2


-----------------------------------------------------------------------------
(* Properties of a single multi-objective call (specification SpecMulti) *)

ReturnedMulti == last.operation = "multi_objective_optimization" /\ last.error = ""

\* C19: multiObjectiveOptimize returns exactly 5 Pareto solutions,
\* best_compromise is the first generated one and the result's
\* optimized_parameters are that solution's parameters, whatever the
\* objective values of the solutions are.
FiveSolutionsFirstIsBest ==
    ReturnedMulti =>
        /\ Len(last.out.result.pareto_solutions) = 5
        /\ last.out.result.best_compromise = last.out.result.pareto_solutions[1]
        /\ last.out.result.optimized_parameters
               = last.out.result.pareto_solutions[1].parameters

\* a result in which a later solution is better than the first in the first
\* objective, a maximized one
C19Witness ==
    /\ ReturnedMulti
    /\ last.objectives # <<>>
    /\ last.objectives[1] = "maximize_purity"
    /\ \E k \in 2..5 :
           last.out.result.pareto_solutions[k].objectives[1]
               > last.out.result.pareto_solutions[1].objectives[1]


\* a weight vector sums to 1.0, up to the rounding of its quotients
SumsToOne(w) == Abs(SumSeq(w) - U) <= Len(w)

\* C20: in a multi-objective run the weight vector is normalized: the weights
\* reported in the result sum to 1.0 (equal weights 1/n when none are
\* supplied), and the weight vector of each of the 5 Pareto solutions is
\* non-negative and sums to 1.0, for every objectives list, every supplied
\* weight vector and every random variation drawn.
WeightsNormalized ==
    ReturnedMulti =>
        /\ SumsToOne(last.out.result.weights)
        /\ last.weights = <<>> =>
               \A k \in 1..Len(last.objectives) :
                   Abs(last.out.result.weights[k] * Len(last.objectives) - U)
                       <= Len(last.objectives)
        /\ \A s \in 1..Len(last.out.result.pareto_solutions) :
               LET w == last.out.result.pareto_solutions[s].weights
               IN  /\ \A k \in 1..Len(w) : w[k] >= 0
                   /\ SumsToOne(w)

\* the same, but for the solutions whose varied weights were all cut to 0
WeightsNormalizedOrZero ==
    ReturnedMulti =>
        /\ SumsToOne(last.out.result.weights)
        /\ \A s \in 1..Len(last.out.result.pareto_solutions) :
               LET w == last.out.result.pareto_solutions[s].weights
               IN  /\ \A k \in 1..Len(w) : w[k] >= 0
                   /\ SumsToOne(w) \/ \A k \in 1..Len(w) : w[k] = 0

-----------------------------------------------------------------------------
(* Concurrent requests: POST /api/optimize served for several clients at     *)
(* once, every request thread calling optimize on the one shared engine.     *)
(* A thread's steps are its accesses to what the threads share: numpy's      *)
(* global generator (each call on it runs under the generator's lock) and    *)
(* the history list (one bytecode loads the list, one C call appends to it). *)

MaxThreads == 2         \* concurrent requests
ConcIterations == 2     \* OPTIMIZATION_ITERATIONS of the concurrent specification

Threads == 1..MaxThreads

\* request bodies: two numeric parameters, and one with a value that is not a
\* number
ConcMaps ==
    { <<Num("temperature", 65000), Num("leaching_time", 8000)>>,
      <<Num("temperature", 65000), Str("note")>> }

ConcObjectives == {"maximize_purity"}

\* the first numeric entry at or after i (the loop skips the others), 0 if none
RECURSIVE NextNumeric(_, _)
NextNumeric(cand, i) ==
    IF i > Len(cand) THEN 0
    ELSE IF cand[i].num THEN i
    ELSE NextNumeric(cand, i + 1)

\* the local variables of a thread inside optimize
Locals(parameters, objective) ==
    [pc |-> "search", parameters |-> parameters, objective |-> objective,
     baseline |-> calculate_objective_value(parameters, objective),
     cand |-> parameters, iteration |-> 0, index |-> NextNumeric(parameters, 1),
     passes |-> 0, error |-> "", result |-> <<>>, loaded |-> <<>>]

\* the request arrives and optimize runs up to the loop: algorithm and bounds,
\* np.random.seed(42), the baseline; a loop that draws nothing runs here too
ThreadStart(t, parameters, objective) ==
    /\ threads[t].pc = "idle"
    /\ rng' = SeededPosition
    /\ LET l == Locals(parameters, objective)
           loop == Iterate(parameters, define_parameter_bounds(parameters), objective,
                           optimization_algorithms[select_algorithm(parameters, objective)]
                               .convergence_rate,
                           config, SeededPosition)
       IN  threads' = [threads EXCEPT ![t] =
               IF l.baseline.error # ""
               THEN [l EXCEPT !.pc = "failed", !.error = l.baseline.error]
               ELSE IF l.index = 0 \/ config = 0
               THEN [l EXCEPT !.pc = "evaluate", !.passes = loop.passes]
               ELSE l]
    /\ UNCHANGED <<conversation_history, config, optimization_history, heap, stream, held, heldAt, returned,
                   calls, last>>

\* one np.random.normal of the loop and the clip after it, then the loop's
\* control up to the next draw: next entry, next pass, or the end of the loop
ThreadDraw(t) ==
    /\ threads[t].pc = "search"
    /\ LET l == threads[t]
           convergence_rate ==
               optimization_algorithms[select_algorithm(l.parameters, l.objective)]
                   .convergence_rate
           step(r) ==
               LET j == NextNumeric(r.params, l.index + 1)
                   ends == \/ EarlyConvergence(l.iteration, config, convergence_rate)
                           \/ l.iteration + 1 >= config
               IN  /\ rng' = r.rng
                   /\ threads' = [threads EXCEPT ![t] =
                          IF r.error # ""
                          THEN [l EXCEPT !.pc = "failed", !.error = r.error]
                          ELSE IF j # 0
                          THEN [l EXCEPT !.cand = r.params, !.index = j]
                          ELSE IF ends
                          THEN [l EXCEPT !.cand = r.params, !.pc = "evaluate",
                                         !.passes = l.iteration + 1]
                          ELSE [l EXCEPT !.cand = r.params,
                                         !.iteration = l.iteration + 1,
                                         !.index = NextNumeric(r.params, 1)]]
       IN  step(Perturb(l.cand, define_parameter_bounds(l.parameters), l.objective,
                        l.iteration, config, l.index, rng))
    /\ UNCHANGED <<conversation_history, config, optimization_history, heap, stream, held, heldAt, returned,
                   calls, last>>

\* the rest of the search, the recommendations and the result dictionary, all
\* on the thread's own objects; then self.optimization_history is loaded for
\* the append.  The result refers to the request's own parameter dictionary.
ThreadEvaluate(t) ==
    /\ threads[t].pc = "evaluate"
    /\ LET l == threads[t]
           algorithm == select_algorithm(l.parameters, l.objective)
           finish(out) ==
               threads' = [threads EXCEPT ![t] =
                   IF out.error # ""
                   THEN [l EXCEPT !.pc = "failed", !.error = out.error]
                   ELSE [l EXCEPT !.pc = "append",
                                  !.result = [out.result EXCEPT
                                                 !.original_parameters = <<"request", t>>],
                                  !.loaded = optimization_history]]
       IN  finish(finish_optimize(l.parameters, l.objective, algorithm,
                                  define_parameter_bounds(l.parameters),
                                  evaluate_search(algorithm, l.parameters, l.objective,
                                                  l.baseline,
                                                  [error |-> "", params |-> l.cand,
                                                   rng |-> rng, passes |-> l.passes])))
    /\ UNCHANGED <<conversation_history, config, optimization_history, heap, stream, rng, held, heldAt,
                   returned, calls, last>>

\* list.append on a loaded list that has since grown: a copy taken at the load
\* would drop what other threads appended
AppendToCopy(list, loaded, result) == AppendResult(loaded, result)
\* list.append(result) on the loaded reference: it is the list object itself,
\* and the append is one step on what the list holds when it runs
AppendTo(list, loaded, result) == AppendResult(list, result)

\* line 90's append, and the return of the result
ThreadAppend(t) ==
    /\ threads[t].pc = "append"
    /\ optimization_history' =
           AppendTo(optimization_history, threads[t].loaded, threads[t].result)
    /\ threads' = [threads EXCEPT ![t].pc = "done"]
    /\ UNCHANGED <<conversation_history, config, heap, stream, rng, held, heldAt, returned, calls, last>>

InitConc ==
    /\ config = ConcIterations
    /\ optimization_history = <<>>
    /\ heap = <<>>
    /\ stream \in SessionStreams
    /\ rng \in 0..(StreamLen - 1)
    /\ held = "None"
    /\ heldAt = <<>>
    /\ returned = <<>>
    /\ calls = 0
    /\ last = NoCall
    /\ threads = [t \in Threads |-> [pc |-> "idle"]]
    /\ conversation_history = <<>>

NextConc ==
    \E t \in Threads :
        \/ \E parameters \in ConcMaps, objective \in ConcObjectives :
               ThreadStart(t, parameters, objective)
        \/ ThreadDraw(t)
        \/ ThreadEvaluate(t)
        \/ ThreadAppend(t)

SpecConc == InitConc /\ [][NextConc]_vars

FinishedCalls == {t \in Threads : threads[t].pc \in {"done", "failed"}}
ReturnedCalls == {t \in Threads : threads[t].pc = "done"}

\* a one-to-one assignment of the calls that returned to the history's entries,
\* each entry being the result of its call
Matchings ==
    {f \in [ReturnedCalls -> 1..Len(optimization_history)] :
        /\ \A a, b \in ReturnedCalls : a # b => f[a] # f[b]
        /\ \A a \in ReturnedCalls : optimization_history[f[a]] = threads[a].result}

\* C11: under every interleaving of concurrent optimize calls on the shared
\* engine, once every call is over the history holds exactly one entry per
\* call that returned, each the result returned to a distinct call: no append
\* is lost, duplicated or torn
ConcurrentAppendsKept ==
    FinishedCalls = Threads =>
        /\ Len(optimization_history) = Cardinality(ReturnedCalls)
        /\ Matchings # {}

\* every call returned, and a call's result is not what the call returns
\* alone: the draws of the calls were interleaved
C11Witness ==
    /\ ReturnedCalls = Threads
    /\ Cardinality(Threads) >= 2
    /\ Len(optimization_history) = Cardinality(Threads)
    /\ \E t \in Threads :
           LET alone == optimize(threads[t].parameters, threads[t].objective)
           IN  \/ alone.error # ""
               \/ alone.result.optimized_parameters
                      # threads[t].result.optimized_parameters

-----------------------------------------------------------------------------
(* One optimize call followed step by step: the request thread's actions on  *)
(* a fresh engine, over wide inputs, so that the candidate is visible after  *)
(* every perturbation step.                                                  *)

\* request bodies: a known parameter far above its bound and just above it,
\* two of them, one with a value that is not a number, a nominal one
StepMaps ==
    { <<Num("acid_concentration", 6000)>>,
      <<Num("acid_concentration", 5100)>>,
      <<Num("temperature", 96000), Num("acid_concentration", 6000)>>,
      <<Num("temperature", 120000), Str("note")>>,
      <<Num("temperature", 65000), Num("leaching_time", 8000)>> }

StepObjectives == {"minimize_cost", "maximize_efficiency"}

StepIterations == {1, 3}

InitSteps ==
    /\ config \in StepIterations
    /\ optimization_history = <<>>
    /\ heap = <<>>
    /\ stream \in [1..StreamLen -> Draws]
    /\ rng = 0
    /\ held = "None"
    /\ heldAt = <<>>
    /\ returned = <<>>
    /\ calls = 0
    /\ last = NoCall
    /\ threads = [t \in {1} |-> [pc |-> "idle"]]
    /\ conversation_history = <<>>

NextSteps ==
    \/ \E parameters \in StepMaps, objective \in StepObjectives :
           ThreadStart(1, parameters, objective)
    \/ ThreadDraw(1)
    \/ ThreadEvaluate(1)
    \/ ThreadAppend(1)

SpecSteps == InitSteps /\ [][NextSteps]_vars

\* a known parameter supplied above its upper bound
SuppliedAbove(e) ==
    e.num /\ e.name \in DOMAIN standard_bounds /\ e.val > standard_bounds[e.name][2]

\* entry i of the thread's candidate has been through a perturbation step
Perturbed(l, i) ==
    \/ l.pc \in {"evaluate", "append", "done"} /\ config > 0
    \/ l.pc = "search" /\ (l.iteration > 0 \/ l.index > i)

\* the candidate of a parameter supplied above its bound is at most the bound
\* after every step, and in the returned result
ClampedThroughout(l) ==
    \A i \in 1..Len(l.parameters) :
        SuppliedAbove(l.parameters[i]) =>
            /\ Perturbed(l, i) => l.cand[i].val <= standard_bounds[l.parameters[i].name][2]
            /\ l.pc = "done" =>
                   l.result.optimized_parameters[i].val
                       <= standard_bounds[l.parameters[i].name][2]

DecreaseAdvised(l, param) ==
    \E k \in 1..Len(l.result.recommendations) :
        /\ l.result.recommendations[k].kind = "Decrease"
        /\ l.result.recommendations[k].param = param

\* the bound is more than 5% of the supplied value below it
FarAbove(e) == (e.val - standard_bounds[e.name][2]) * 20 > e.val

\* C21 as stated: a known parameter supplied above its upper bound is at most
\* the bound after every perturbation step and in the returned result, and
\* the returned recommendations hold a 'Decrease' sentence for it, whatever
\* was drawn
AboveBoundClampedAndDecreaseAdvised ==
    threads[1].pc # "idle" =>
        /\ ClampedThroughout(threads[1])
        /\ threads[1].pc = "done" =>
               \A i \in 1..Len(threads[1].parameters) :
                   SuppliedAbove(threads[1].parameters[i]) =>
                       DecreaseAdvised(threads[1], threads[1].parameters[i].name)

\* C21, amended: the candidate is at most the bound after every step and in
\* the result; the 'Decrease' sentence is there when the bound lies more than
\* 5% of the supplied value below it (as for 6.0 against 5.0), whatever was
\* drawn
AboveBoundClampedAndDecreaseAdvisedBeyondThreshold ==
    threads[1].pc # "idle" =>
        /\ ClampedThroughout(threads[1])
        /\ threads[1].pc = "done" =>
               \A i \in 1..Len(threads[1].parameters) :
                   (SuppliedAbove(threads[1].parameters[i]) /\ FarAbove(threads[1].parameters[i]))
                       => DecreaseAdvised(threads[1], threads[1].parameters[i].name)

\* acid_concentration = 6.0 under minimize_cost came back at its bound 5.0
\* after draws that pushed it upwards, with its 'Decrease' sentence
C21Witness ==
    /\ threads[1].pc = "done"
    /\ threads[1].objective = "minimize_cost"
    /\ threads[1].parameters = <<Num("acid_concentration", 6000)>>
    /\ threads[1].result.optimized_parameters[1].val = 5000
    /\ DecreaseAdvised(threads[1], "acid_concentration")

-----------------------------------------------------------------------------
(* The empty parameter map (specification SpecFn) *)

EmptyMapCall == last.operation = "optimize" /\ last.parameters = <<>>

\* every estimator ran on its defaults: no error, and a positive baseline
EmptyMapBaseline == BaselineOf(last).error = "" /\ BaselineOf(last).value > 0

EmptyMapResult ==
    /\ last.error = ""
    /\ last.out.result.optimized_parameters = <<>>
    /\ last.out.result.improvement = 0
    /\ last.out.result.optimization_score = 700

\* C22: with an empty parameter map the evaluator fails for no objective, the
\* baseline is finite and positive, and optimize returns empty optimized
\* parameters, an improvement of 0 and a score of 70
EmptyMapReturnsNeutralResult ==
    EmptyMapCall => (EmptyMapBaseline /\ EmptyMapResult)

\* the same when at least one iteration is configured, which the code does keep
EmptyMapNeutralWhenIterating ==
    (EmptyMapCall /\ config > 0) => (EmptyMapBaseline /\ EmptyMapResult)

-----------------------------------------------------------------------------
(* The directional sentences of a returned result (specification SpecFn) *)

\* the directional sentences of the returned recommendations for a parameter
SentencesFor(param) ==
    {k \in 1..Len(last.out.result.recommendations) :
        /\ last.out.result.recommendations[k].kind \in {"Increase", "Decrease"}
        /\ last.out.result.recommendations[k].param = param}

\* the optimized value differs from the original by more than 5% of the
\* original's magnitude
ChangedBeyondThreshold(orig_value, opt_value) ==
    Abs(opt_value - orig_value) * 20 > Abs(orig_value)

\* C23: the recommendations hold exactly one directional sentence for every
\* parameter whose optimized value differs from its original by more than 5%
\* of the original's magnitude, 'Increase' if and only if the optimized value
\* is the greater, and none for a parameter that changed by 5% or less; for
\* originals of any sign, zero and negative values included
OneSentencePerChangedParameter ==
    Returned =>
        \A i \in 1..Len(last.parameters) :
            LET orig_value == last.parameters[i].val
                opt_value == last.out.result.optimized_parameters[i].val
                sentences == SentencesFor(last.parameters[i].name)
            IN  IF ChangedBeyondThreshold(orig_value, opt_value)
                THEN /\ Cardinality(sentences) = 1
                     /\ \A k \in sentences :
                            (last.out.result.recommendations[k].kind = "Increase")
                                <=> (opt_value > orig_value)
                ELSE sentences = {}

\* the same for originals that are not negative, which the code does keep
OneSentencePerChangedParameterFromZeroUp ==
    (Returned /\ \A i \in 1..Len(last.parameters) : last.parameters[i].val >= 0)
        => OneSentencePerChangedParameter

-----------------------------------------------------------------------------
(* The order of the returned recommendations (specification SpecFn) *)

RolloutLines ==
    <<Line("Implement changes gradually to assess individual impacts"),
      Line("Establish monitoring protocols for key performance indicators")>>

PilotCaution ==
    Line("High improvement potential - consider pilot testing before full implementation")

\* the number of directional sentences at the head of the list
RECURSIVE LeadingSentences(_)
LeadingSentences(lines) ==
    IF lines # <<>> /\ Head(lines).kind \in {"Increase", "Decrease"}
    THEN 1 + LeadingSentences(Tail(lines))
    ELSE 0

\* the list after its leading directional sentences
AfterSentences(lines) == SubSeq(lines, LeadingSentences(lines) + 1, Len(lines))

\* C24: the recommendations optimize returns are never empty and are ordered
\* as the per-parameter sentences, the two lines of the objective (for the
\* four named objectives), the two rollout lines, then the pilot-test caution;
\* the caution is there if and only if the improvement percentage the search
\* computed is greater than 20
RecommendationsOrderedWithPilotCaution ==
    Returned =>
        /\ last.out.result.recommendations # <<>>
        /\ AfterSentences(last.out.result.recommendations)
               = ObjectiveLines(last.objective) \o RolloutLines
                     \o (IF last.out.search.improvement_pct > 20 * U
                         THEN <<PilotCaution>> ELSE <<>>)

\* the same with the caution decided by the percentage as reported, rounded
\* to one decimal, which the code does keep
RecommendationsOrderedWithPilotCautionAsReported ==
    Returned =>
        /\ last.out.result.recommendations # <<>>
        /\ AfterSentences(last.out.result.recommendations)
               = ObjectiveLines(last.objective) \o RolloutLines
                     \o (IF last.out.result.improvement > 200
                         THEN <<PilotCaution>> ELSE <<>>)

-----------------------------------------------------------------------------
(* The search loop, pass by pass: one call's thread under the default and    *)
(* under small iteration counts, for all four algorithms.                    *)

\* one parameter, and seven (the selection by parameter count)
LoopMaps == { <<Num("temperature", 65000)>>, SubSeq(NominalEntries, 1, 7) }

\* objectives selecting genetic_algorithm, simulated_annealing,
\* particle_swarm, and by count differential_evolution or particle_swarm
LoopObjectives == {"multi_objective", "minimize_cost", "minimize_time", "maximize_efficiency"}

LoopIterations == {0, 1, 3, OPTIMIZATION_ITERATIONS}

InitLoop ==
    /\ config \in LoopIterations
    /\ optimization_history = <<>>
    /\ heap = <<>>
    /\ stream \in SessionStreams
    /\ rng = 0
    /\ held = "None"
    /\ heldAt = <<>>
    /\ returned = <<>>
    /\ calls = 0
    /\ last = NoCall
    /\ threads = [t \in {1} |-> [pc |-> "idle"]]
    /\ conversation_history = <<>>

NextLoop ==
    \/ \E parameters \in LoopMaps, objective \in LoopObjectives :
           ThreadStart(1, parameters, objective)
    \/ ThreadDraw(1)
    \/ ThreadEvaluate(1)
    \/ ThreadAppend(1)

SpecLoop == InitLoop /\ [][NextLoop]_vars

RateOf(l) ==
    optimization_algorithms[select_algorithm(l.parameters, l.objective)].convergence_rate

\* the iteration indices of range(max_iterations) that exceed
\* max_iterations x convergence_rate
Exceeding(max_iterations, convergence_rate) ==
    {i \in 0..(max_iterations - 1) : i * U > max_iterations * convergence_rate}

\* the passes run when the loop stops after the first such index
ExpectedPasses(max_iterations, convergence_rate) ==
    IF Exceeding(max_iterations, convergence_rate) = {} THEN max_iterations
    ELSE 1 + CHOOSE i \in Exceeding(max_iterations, convergence_rate) :
                 \A j \in Exceeding(max_iterations, convergence_rate) : i <= j

DefaultPasses ==
    [genetic_algorithm |-> 87, simulated_annealing |-> 90,
     differential_evolution |-> 92, particle_swarm |-> 94]

\* in a pass being executed no earlier index exceeded the threshold and the
\* convergence weight 1 - iteration / max_iterations is positive; the count
\* reported is the number of passes executed, the expected one
PassesAsExpected ==
    LET l == threads[1]
    IN  /\ l.pc = "search" =>
               /\ \A j \in Exceeding(config, RateOf(l)) : l.iteration <= j
               /\ config - l.iteration > 0
        /\ l.pc = "done" =>
               /\ l.result.convergence_iterations = l.iteration + 1
               /\ l.result.convergence_iterations = ExpectedPasses(config, RateOf(l))
               /\ config = OPTIMIZATION_ITERATIONS =>
                      /\ l.result.convergence_iterations = DefaultPasses[l.result.algorithm]
                      /\ l.result.convergence_iterations < OPTIMIZATION_ITERATIONS

\* what is left of the loop: the passes not yet finished, counted in entries
Remaining(l) ==
    IF l.pc = "search"
    THEN (config - l.iteration) * (Len(l.parameters) + 1) - l.index
    ELSE 0

\* every step of the thread inside the loop leaves less of it
SearchAdvances ==
    threads[1].pc = "search" =>
        /\ Remaining(threads[1]) > 0
        /\ Remaining(threads'[1]) < Remaining(threads[1])

\* C25: the search loop terminates (every step in it reduces what is left of
\* it), stopping after the first iteration index that exceeds
\* max_iterations x convergence_rate; the reported iteration count is the
\* number of passes executed: with the default 100 iterations 87, 90, 92 and
\* 94 passes for genetic_algorithm, simulated_annealing,
\* differential_evolution and particle_swarm, never the full 100, and the
\* convergence weight is positive in every executed pass
SearchLoopStopsEarly == []PassesAsExpected /\ [][SearchAdvances]_vars

\* a call under the default configuration returned after 87 passes of the
\* genetic algorithm
C25Witness ==
    /\ threads[1].pc = "done"
    /\ config = OPTIMIZATION_ITERATIONS
    /\ threads[1].result.algorithm = "genetic_algorithm"
    /\ threads[1].result.convergence_iterations = 87

-----------------------------------------------------------------------------
(* The sign of the improvement (specification SpecFn) *)

\* objective.startswith('minimize'), for the objective strings of the model
StartsWithMinimize(objective) ==
    objective \in {"minimize_cost", "minimize_time", "minimize_cost_and_time"}

\* the improvement by the stated convention
ImprovementByPrefix(search, objective) ==
    IF StartsWithMinimize(objective)
    THEN search.baseline_performance - search.optimized_performance
    ELSE search.optimized_performance - search.baseline_performance

\* C26: the improvement is baseline - optimized exactly for the objective
\* names that start with 'minimize' and optimized - baseline for every other
\* name, names that contain 'minimize' elsewhere or in another letter case
\* included; seen in the reported percentage of a positive baseline: 0 when
\* that improvement is negative, its clamped percentage when it is positive
SignDecidedByPrefix ==
    (Returned /\ last.out.search.baseline_performance > 0) =>
        LET value == ImprovementByPrefix(last.out.search, last.objective)
            pct == last.out.search.improvement_pct
        IN  /\ value < 0 => pct = 0
            /\ value > 0 =>
                   pct = Min(50 * U, LongDiv(value * 100,
                                             last.out.search.baseline_performance, 3))

\* the same for the names in which 'minimize' occurs at the start or not at
\* all, which the code does keep
SignDecidedByPrefixOrAbsence ==
    (/\ Returned
     /\ StartsWithMinimize(last.objective) <=> Contains(last.objective, "minimize"))
        => SignDecidedByPrefix

-----------------------------------------------------------------------------
(* Defaults of absent parameters (specification SpecFn) *)

\* the defaults of the parameters that more than one estimator reads
DocumentedDefaults ==
    [temperature |-> 65000, leaching_time |-> 8000, acid_concentration |-> 1500,
     voltage |-> 2200]

\* the map with the default of every absent parameter of `keys` added
RECURSIVE Completed(_, _)
Completed(parameters, keys) ==
    IF keys = {} THEN parameters
    ELSE LET k == CHOOSE x \in keys : TRUE
         IN  Completed(IF Has(parameters, k) THEN parameters
                       ELSE Append(parameters, Num(k, DocumentedDefaults[k])),
                       keys \ {k})

\* C27: every estimator takes the same documented default for a parameter
\* absent from the map and none fails on a missing key; an absent temperature
\* counts as 65 in every estimator that reads it (recovery, purity, energy
\* efficiency, energy cost, processing time): the baseline of a map is that of
\* the map completed with the defaults
AbsentParametersTakeDefaults ==
    Returned =>
        last.out.search.baseline_performance
            = calculate_objective_value(Completed(last.parameters, DOMAIN DocumentedDefaults),
                                        last.objective).value

\* the same for every objective but the purity estimate, which the code does keep
AbsentParametersTakeDefaultsButPurity ==
    (Returned /\ last.objective # "maximize_purity") => AbsentParametersTakeDefaults

-----------------------------------------------------------------------------
(* The caller's parameter map across one call of either kind, over maps of   *)
(* none to many keys (specification SpecCalls)                               *)

\* the caller's maps: empty, known and unknown keys, a value out of its
\* bounds, a value that is not a number, and the large maps
CallerMaps ==
    { <<>>, <<Num("temperature", 120000), Num("dose", 3000)>>,
      <<Num("voltage", 2200), Num("temperature", 65000), Num("leaching_time", 8000)>>,
      <<Str("note"), Num("temperature", 65000)>> } \cup LargeMaps

CallerObjectives == {"maximize_efficiency", "minimize_cost", "balance"}

CallerIterations == {1, 3}

InitCalls ==
    /\ config \in CallerIterations
    /\ optimization_history = <<>>
    /\ heap \in CallerMaps
    /\ stream \in [1..StreamLen -> Draws]
    /\ rng = 0
    /\ held = "None"
    /\ heldAt = <<>>
    /\ returned = <<>>
    /\ calls = 0
    /\ last = NoCall
    /\ threads = <<>>
    /\ conversation_history = <<>>

NextCalls ==
    \/ \E objective \in CallerObjectives : calls = 0 /\ Optimize(objective)
    \/ \E objectives \in SessionObjectiveLists : calls = 0 /\ MultiObjective(objectives, <<>>)

SpecCalls == InitCalls /\ [][NextCalls]_vars

Names(m) == [i \in 1..Len(m) |-> m[i].name]

\* the candidate of the result, and every Pareto solution of a multi-objective
\* one, has the keys of `parameters`
SameKeys(result, parameters) ==
    /\ Names(result.optimized_parameters) = Names(parameters)
    /\ result.operation = "multi_objective_optimization" =>
           \A k \in 1..Len(result.pareto_solutions) :
               Names(result.pareto_solutions[k].parameters) = Names(parameters)

\* C28: optimize and multi_objective_optimization never modify the caller's
\* parameter map: after the call it has the keys and values it had before,
\* the perturbation having gone to a separate candidate map; the candidate
\* and every Pareto solution have the key set of the input
CallerMapUntouched ==
    [][CallStep => /\ heap' = heap
                   /\ last'.error = "" => SameKeys(last'.out.result, heap)]_vars

\* a multi-objective call on a map of three keys returned, its last solution
\* different from the caller's map, which is as it was
C28Witness ==
    /\ last.operation = "multi_objective_optimization" /\ last.error = ""
    /\ Len(last.parameters) = 3
    /\ heap = last.parameters
    /\ last.out.result.pareto_solutions[5].parameters # heap
    /\ last.out.result.optimized_parameters # heap

-----------------------------------------------------------------------------
(* The Pareto solutions of a multi-objective run (specification SpecMulti) *)

\* the samples of the generator's cycle
StreamSamples == {stream[j] : j \in 1..Len(stream)}

\* value `val` of entry i of a solution with weights `varied_weights` is the
\* caller's value moved once, by a sample scaled by a tenth of the range and
\* by the weighted factors, and clamped
PerturbedOnceFrom(parameters, bounds, objectives, varied_weights, i, val) ==
    \E d \in StreamSamples :
        val = Clip(parameters[i].val
                   + Mul(Mul(d, TDiv(bounds[i][2] - bounds[i][1], 10)),
                         TotalAdjustment(parameters[i].name, objectives, varied_weights, 1)),
                   bounds[i][1], bounds[i][2])

\* C29: in a multi-objective run each of the 5 Pareto solutions is a single
\* clamped perturbation of the caller's original parameter values, never of a
\* solution generated before it, and every numeric value of every solution
\* lies within its resolved bounds
SolutionsPerturbCallerValuesWithinBounds ==
    ReturnedMulti =>
        \A k \in 1..Len(last.out.result.pareto_solutions) :
            LET solution == last.out.result.pareto_solutions[k]
            IN  \A i \in 1..Len(last.parameters) :
                    IF last.parameters[i].num
                    THEN /\ solution.parameters[i].num
                         /\ solution.parameters[i].val >= last.out.bounds[i][1]
                         /\ solution.parameters[i].val <= last.out.bounds[i][2]
                         /\ PerturbedOnceFrom(last.parameters, last.out.bounds,
                                              last.objectives, solution.weights, i,
                                              solution.parameters[i].val)
                    ELSE solution.parameters[i] = last.parameters[i]

\* a run returned five solutions for a map with a value above its bound and an
\* unknown parameter: the first was clamped to the bound in every solution,
\* the second moved in the second solution, in a way that one move from the
\* first solution's value does not give
C29Witness ==
    /\ ReturnedMulti
    /\ Len(last.out.result.pareto_solutions) = 5
    /\ Len(last.parameters) = 2
    /\ last.parameters[1].val > last.out.bounds[1][2]
    /\ \A k \in 1..5 :
           last.out.result.pareto_solutions[k].parameters[1].val = last.out.bounds[1][2]
    /\ last.out.result.pareto_solutions[1].parameters[2].val # last.parameters[2].val
    /\ last.out.result.pareto_solutions[2].parameters[2].val # last.parameters[2].val
    /\ ~PerturbedOnceFrom(last.out.result.pareto_solutions[1].parameters, last.out.bounds,
                          last.objectives, last.out.result.pareto_solutions[2].weights, 2,
                          last.out.result.pareto_solutions[2].parameters[2].val)

-----------------------------------------------------------------------------
(* The request router: WarpMiningAI.process_user_input behind /api/chat      *)
(* (specification SpecRouter)                                                *)

MaxMessages == 2        \* chat requests answered per behaviour

\* the messages of the model: the empty one, and messages with and without
\* the words the router looks for, one of them in upper case
Messages ==
    { "", "simulate", "predict the weather", "remodel my kitchen", "simulate leaching",
      "Simulate Deposit", "simulate extraction of a deposit", "optimize cost",
      "improve purity", "a faster process is better", "hello", "model and optimize",
      "what is electrowinning", "upgrade efficiency", "run a simulation of refining",
      "prospect for cobalt" }

\* user_input.lower()
LowerInput(user_input) ==
    CASE user_input = "Simulate Deposit" -> "simulate deposit"
      [] OTHER                           -> user_input

\* which of the words the router and extract_objective look for each message
\* contains, as written
MessageWords(user_input) ==
    CASE user_input = "simulate"                         -> {"simulate"}
      [] user_input = "predict the weather"              -> {"predict"}
      [] user_input = "remodel my kitchen"               -> {"model"}
      [] user_input = "simulate leaching"                -> {"simulate", "leach"}
      [] user_input = "simulate deposit"                 -> {"simulate", "deposit"}
      [] user_input = "simulate extraction of a deposit" -> {"simulate", "extract", "deposit"}
      [] user_input = "optimize cost"                    -> {"optimize", "cost"}
      [] user_input = "improve purity"                   -> {"improve", "purity"}
      [] user_input = "a faster process is better"       -> {"better", "fast"}
      [] user_input = "model and optimize"               -> {"model", "optimize"}
      [] user_input = "what is electrowinning"           -> {"electrowin"}
      [] user_input = "upgrade efficiency"               -> {"efficiency", "grade"}
      [] user_input = "run a simulation of refining"     -> {"simulation", "refin"}
      [] user_input = "prospect for cobalt"              -> {"prospect"}
      [] OTHER                                           -> {}

\* any(word in user_input_lower for word in words)
AnyWord(user_input_lower, words) == MessageWords(user_input_lower) \cap words # {}

SimulationWords   == {"simulate", "simulation", "predict", "model"}
ExtractionWords   == {"extract", "leach", "electrowin", "refin"}
ExplorationWords  == {"explor", "prospect", "deposit", "geological"}
OptimizationWords == {"optimize", "improve", "better", "efficiency"}

\* what a handler returns: a string (the handler that built it, and for an
\* optimization what it was built from), or None
Response(handler, of) == [kind |-> "str", handler |-> handler, of |-> of]
None == [kind |-> "None", handler |-> "", of |-> <<>>]

parse_optimization_parameters(user_input) ==
    << Num("current_efficiency", 850), Num("cost_constraint", 1000 * U),
       Num("time_constraint", 12 * U), Num("quality_target", 950) >>

extract_objective(user_input) ==
    IF AnyWord(LowerInput(user_input), {"cost", "cheap", "economic"}) THEN "minimize_cost"
    ELSE IF AnyWord(LowerInput(user_input), {"time", "fast", "quick"}) THEN "minimize_time"
    ELSE IF AnyWord(LowerInput(user_input), {"purity", "quality", "grade"})
    THEN "maximize_purity"
    ELSE "maximize_efficiency"

\* the simulators' results are not followed: the handler formats one
handle_extraction_simulation(user_input) ==
    [error |-> "", response |-> Response("extraction_simulation", <<>>), engine |-> <<>>]

handle_exploration_simulation(user_input) ==
    [error |-> "", response |-> Response("exploration_simulation", <<>>), engine |-> <<>>]

\* engine: the outcome of the call of OptimizationEngine.optimize
handle_optimization(user_input) ==
    LET format(out) ==
            IF out.error # "" THEN [error |-> out.error, response |-> None, engine |-> <<out>>]
            ELSE [error |-> "", engine |-> <<out>>,
                  response |-> Response("optimization",
                                        << out.result.objective, out.result.algorithm,
                                           out.result.improvement >>)]
    IN  format(optimize(parse_optimization_parameters(user_input),
                        extract_objective(user_input)))

\* MiningChatAssistant.respond ends every branch with a return of a string
chat_assistant_respond(user_input) ==
    [error |-> "", response |-> Response("chat_assistant", <<>>), engine |-> <<>>]

\* the elif and the else belong to the outer if: a message with a simulation
\* word and neither an extraction nor an exploration word runs off the end of
\* the function, which returns None
process_user_input(user_input) ==
    LET user_input_lower == LowerInput(user_input)
    IN  IF AnyWord(user_input_lower, SimulationWords)
        THEN IF AnyWord(user_input_lower, ExtractionWords)
             THEN handle_extraction_simulation(user_input)
             ELSE IF AnyWord(user_input_lower, ExplorationWords)
             THEN handle_exploration_simulation(user_input)
             ELSE [error |-> "", response |-> None, engine |-> <<>>]
        ELSE IF AnyWord(user_input_lower, OptimizationWords)
        THEN handle_optimization(user_input)
        ELSE chat_assistant_respond(user_input)

\* POST /api/chat with {'message': message}
Chat(message) ==
    /\ Len(conversation_history) < MaxMessages
    /\ IF message = ""
       THEN /\ last' = [operation |-> "chat", error |-> "No message provided",
                        status |-> 400, message |-> message, response |-> None]
            /\ UNCHANGED <<conversation_history, optimization_history, rng, returned, calls>>
       ELSE \E r \in {process_user_input(message)} :
               /\ IF r.error = ""
                  THEN /\ conversation_history' =
                              Append(conversation_history,
                                     [user |-> message, assistant |-> r.response])
                       /\ last' = [operation |-> "chat", error |-> "", status |-> 200,
                                   message |-> message, response |-> r.response]
                  ELSE /\ UNCHANGED conversation_history
                       /\ last' = [operation |-> "chat", error |-> r.error, status |-> 500,
                                   message |-> message, response |-> None]
               /\ IF r.engine = <<>>
                  THEN UNCHANGED <<optimization_history, rng, returned, calls>>
                  ELSE /\ rng' = r.engine[1].rng
                       /\ calls' = calls + 1
                       /\ IF r.engine[1].error = ""
                          THEN /\ optimization_history' =
                                      AppendResult(optimization_history, r.engine[1].result)
                               /\ returned' =
                                      Append(returned,
                                             Deref(r.engine[1].result,
                                                   parse_optimization_parameters(message)))
                          ELSE UNCHANGED <<optimization_history, returned>>
    /\ UNCHANGED <<threads, config, heap, stream, held, heldAt>>

InitRouter ==
    /\ config = OPTIMIZATION_ITERATIONS
    /\ optimization_history = <<>>
    /\ heap = <<>>
    /\ stream \in SessionStreams
    /\ rng = 0
    /\ held = "None"
    /\ heldAt = <<>>
    /\ returned = <<>>
    /\ calls = 0
    /\ last = NoCall
    /\ threads = <<>>
    /\ conversation_history = <<>>

NextRouter == \E message \in Messages : Chat(message)

SpecRouter == InitRouter /\ [][NextRouter]_vars

\* a chat request with a message that is not empty was answered with status 200
Answered == last.operation = "chat" /\ last.message # "" /\ last.status = 200

\* C30: process_user_input returns a response string for every non-empty user
\* input: each is routed to exactly one of extraction simulation, exploration
\* simulation, optimization or the chat assistant, and no input falls through
\* without a response
EveryInputGetsAResponse ==
    Answered =>
        /\ last.response.kind = "str"
        /\ last.response.handler \in {"extraction_simulation", "exploration_simulation",
                                      "optimization", "chat_assistant"}

\* the inputs that fall through are those with a simulation word and neither
\* an extraction nor an exploration word; every other one gets a string
FallsThroughOnlyOnBareSimulationWord ==
    Answered =>
        (last.response = None <=>
            /\ AnyWord(LowerInput(last.message), SimulationWords)
            /\ ~AnyWord(LowerInput(last.message), ExtractionWords)
            /\ ~AnyWord(LowerInput(last.message), ExplorationWords))

=============================================================================
